---- MODULE Spec2Model ----
(***************************************************************************)
(* Model of the Imagery-QC scripts: Create_COG.py (the COG batch pipeline  *)
(* of class CloudOptimizedGeotiff) and Check_Corrupt_Jpg.py (the JPEG      *)
(* scanner).  Paths, file names and log lines are sequences of one         *)
(* character strings, so that basename, splitext, split and the substring  *)
(* test of the code are computed, not assumed.  The GDAL calls are a black *)
(* box: each may succeed or raise.                                         *)
(***************************************************************************)
EXTENDS Integers, Sequences, FiniteSets, TLC

VARIABLES
    entry,            \* which entry point was called: "idle" before the call
    stage,            \* the function the run is in
    status,           \* "idle", "running", "returned" or "raised"
    exc,              \* the exception that escaped, "none" otherwise
    fs,               \* the files: path -> content
    dirs,             \* the directories
    cwd,              \* the process's working directory (os.chdir)
    epsg,             \* self.epsg
    compress_method,  \* self.compress_method
    idir, odir,       \* the driver's directories (out_dir of a stage call)
    flist,            \* the list the current loop iterates
    i,                \* the loop's position in flist (1-based)
    todo,             \* cleanup: the globbed files not yet removed
    jobs,             \* observation of each loop iteration of the current stage
    calls,            \* the gdal.Translate calls of the current stage
    opened,           \* the gdal.Open calls of the overview stage
    converted,        \* the paths the convert stage's translate wrote
    trace,            \* the stages entered, in order
    returned,         \* the stages that returned
    fs0,              \* fs when the current stage was entered
    fsRun,            \* fs when the entry point was called
    printed           \* scanner: what was printed

vars == <<entry, stage, status, exc, fs, dirs, cwd, epsg, compress_method, idir,
          odir, flist, i, todo, jobs, calls, opened, converted, trace, returned,
          fs0, fsRun, printed>>

\* ------------------------------------------------------------------ bounds

MaxFiles == 3
MaxTokens == 2

\* ------------------------------------------------------------- characters

utm == <<"u","t","m">>
utm08 == <<"u","t","m","0","8">>
utm8 == <<"u","t","m","8">>
utm09 == <<"u","t","m","0","9">>
utm9 == <<"u","t","m","9">>
utm10 == <<"u","t","m","1","0">>
utm11 == <<"u","t","m","1","1">>
bcalb == <<"b","c","a","l","b">>
utm12 == <<"u","t","m","1","2">>
xbcalb == <<"x","b","c","a","l","b">>
badtoken == <<"b","a","d","t","o","k","e","n">>
tif == <<".","t","i","f">>
asc == <<".","a","s","c">>
dem == <<".","d","e","m">>
jpg == <<".","j","p","g">>
COG == <<"C","O","G">>
ConvLog == <<"c","o","m","p","r","e","s","s","i","o","n","_","a","n","d","_","t","i","l","i","n","g","_","e","r","r","o","r","s",".","t","x","t">>
CogLog == <<"C","O","G","_","c","r","e","a","t","i","o","n","_","e","r","r","o","r","s",".","t","x","t">>
CsvName == <<"i","m","a","g","e","_","e","r","r","o","r","s",".","c","s","v">>

None == -1

Min(S) == CHOOSE m \in S : \A n \in S : m <= n
Max(S) == CHOOSE m \in S : \A n \in S : n <= m

\* str.find / str.rfind of one character, 1-based, 0 when absent
find(s, c) == LET K == {k \in 1..Len(s) : s[k] = c} IN IF K = {} THEN 0 ELSE Min(K)
rfind(s, c) == LET K == {k \in 1..Len(s) : s[k] = c} IN IF K = {} THEN 0 ELSE Max(K)

\* sub in s
Contains(s, sub) ==
    \E k \in 1..(Len(s) - Len(sub) + 1) : SubSeq(s, k, k + Len(sub) - 1) = sub

\* os.path.basename
basename(p) == SubSeq(p, rfind(p, "/") + 1, Len(p))

\* os.path.splitext(p)[0]: the last dot splits, unless it leads the name
splitext(p) ==
    LET sep == rfind(p, "/")
        dot == rfind(p, ".")
    IN  IF dot > sep /\ (\E k \in (sep + 1)..(dot - 1) : p[k] # ".")
        THEN SubSeq(p, 1, dot - 1)
        ELSE p

\* os.path.join(a, b)
join(a, b) ==
    IF Len(b) > 0 /\ b[1] = "/" THEN b
    ELSE IF Len(a) = 0 \/ a[Len(a)] = "/" THEN a \o b
    ELSE a \o <<"/">> \o b

\* str.split(sep)
RECURSIVE split(_, _)
split(s, sep) ==
    LET k == find(s, sep)
    IN  IF k = 0 THEN <<s>>
        ELSE <<SubSeq(s, 1, k - 1)>> \o split(SubSeq(s, k + 1, Len(s)), sep)

\* '_'.join(tokens), used to build the file names given to the code
RECURSIVE JoinTokens(_)
JoinTokens(toks) ==
    IF Len(toks) = 0 THEN <<>>
    ELSE IF Len(toks) = 1 THEN toks[1]
    ELSE toks[1] \o <<"_">> \o JoinTokens(Tail(toks))

\* --------------------------------------------------------------- resolver

PROJECTIONS ==
    [t \in {utm08, utm8, utm09, utm9, utm10, utm11, bcalb} |->
        CASE t \in {utm08, utm8} -> 3155
          [] t \in {utm09, utm9} -> 3156
          [] t = utm10 -> 3157
          [] t = utm11 -> 2955
          [] t = bcalb -> 3005]

\* the tokens the loop of epsg_from_filename enumerates
FilenameTokens(filename) == split(splitext(basename(filename)), "_")

\* epsg_from_filename: the value self.epsg has afterwards, and whether the
\* dictionary lookup raised KeyError
epsg_from_filename(cur, filename) ==
    LET toks == FilenameTokens(filename)
        hits == {k \in 1..Len(toks) : Contains(toks[k], utm) \/ Contains(toks[k], bcalb)}
    IN  IF hits = {} THEN [epsg |-> cur, raised |-> FALSE]
        ELSE IF toks[Min(hits)] \in DOMAIN PROJECTIONS
             THEN [epsg |-> PROJECTIONS[toks[Min(hits)]], raised |-> FALSE]
             ELSE [epsg |-> cur, raised |-> TRUE]

\* ------------------------------------------------------------ file system

Root == <<"/">>
IDir == <<"/","i">>
ODir == <<"/","o">>
JDir == <<"/","j">>

\* a file's content: a source raster, a raster gdal.Translate wrote (from src,
\* with spatial reference srs), what a failed translate left, or a log's lines
File(kind, src, srs, ovr, lines) ==
    [kind |-> kind, src |-> src, srs |-> srs, ovr |-> ovr, lines |-> lines]
Source == File("source", <<>>, None, FALSE, <<>>)
Absent == File("absent", <<>>, None, FALSE, <<>>)

Put(f, k, v) == [x \in DOMAIN f \cup {k} |-> IF x = k THEN v ELSE f[x]]
Del(f, k) == [x \in DOMAIN f \ {k} |-> f[x]]
ContentAt(f, p) == IF p \in DOMAIN f THEN f[p] ELSE Absent
LinesAt(f, p) == IF p \in DOMAIN f THEN f[p].lines ELSE <<>>

\* os.path.exists(name), name relative to the working directory
exists(name) == join(cwd, name) \in DOMAIN fs \cup dirs

\* fnmatch of '*' + ext as glob applies it: hidden names are not matched
fnmatch(name, ext) ==
    /\ Len(name) >= Len(ext)
    /\ SubSeq(name, Len(name) - Len(ext) + 1, Len(name)) = ext
    /\ name[1] # "."

\* mutant of glob: the pattern also matches below dir
globRecursive(f, dir, ext) ==
    {p \in DOMAIN f :
        LET pre == join(dir, <<>>)
        IN  /\ Len(p) > Len(pre)
            /\ SubSeq(p, 1, Len(pre)) = pre
            /\ fnmatch(basename(p), ext)}

\* glob(os.path.join(dir, '*' + ext)): the matching entries directly in dir
glob(f, dir, ext) ==
    {p \in DOMAIN f :
        LET pre == join(dir, <<>>)
        IN  /\ Len(p) > Len(pre)
            /\ SubSeq(p, 1, Len(pre)) = pre
            /\ find(SubSeq(p, Len(pre) + 1, Len(p)), "/") = 0
            /\ fnmatch(SubSeq(p, Len(pre) + 1, Len(p)), ext)}

\* the orders in which glob may return a set of entries
Orderings(S) ==
    {s \in [1..Cardinality(S) -> S] : \A a, b \in 1..Cardinality(S) : s[a] = s[b] => a = b}

\* ----------------------------------------------------------------- inputs

InputNames ==
    { JoinTokens(<< <<"a">>, utm10 >>) \o dem,
      JoinTokens(<< <<"a">>, utm10 >>) \o asc,
      JoinTokens(<< <<"b">>, bcalb >>) \o asc,
      JoinTokens(<< <<"c">>, badtoken >>) \o tif,
      JoinTokens(<< <<"d">>, utm12 >>) \o dem }

\* outputs an earlier run may have left in the output directory
PreNames ==
    { splitext(JoinTokens(<< <<"a">>, utm10 >>) \o dem) \o tif,
      splitext(JoinTokens(<< <<"c">>, badtoken >>) \o tif) \o tif }

JpgNames == { <<"p">> \o jpg, <<"q">> \o jpg, <<"r">> \o jpg }

Tokens == {utm08, utm8, utm09, utm9, utm10, utm11, bcalb, utm12, xbcalb, badtoken, <<"a">>}

TokenSeqs == UNION {[1..n -> Tokens] : n \in 1..MaxTokens}

Small(S, n) == {T \in SUBSET S : Cardinality(T) <= n}

ErrText == <<"E">>

\* the files the tree may hold before the run: inputs, outputs and the error
\* log of an earlier run, and a raster named like the last character of the
\* output directory; the COG directory of an earlier run may be there too
Universe ==
    {join(IDir, n) : n \in InputNames} \cup {join(ODir, n) : n \in PreNames}
        \cup {join(ODir, <<"o">>), join(ODir, ConvLog)}

\* an error log an earlier run left
OldLog == File("log", <<>>, None, FALSE, << <<"o","l","d","\n">> >>)

Init ==
    /\ \E tree \in Small(Universe \cup {join(ODir, COG)}, MaxFiles) :
        /\ fs = [p \in tree \ {join(ODir, COG)} |->
                    IF p = join(ODir, ConvLog) THEN OldLog ELSE Source]
        /\ dirs = {Root, IDir, ODir, JDir} \cup (tree \cap {join(ODir, COG)})
    /\ entry = "idle"
    /\ stage = "IDLE"
    /\ status = "idle"
    /\ exc = "none"
    /\ cwd = JDir
    /\ epsg = None
    /\ compress_method = "DEFLATE"
    /\ idir = <<>>
    /\ odir = <<>>
    /\ flist = <<>>
    /\ i = 1
    /\ todo = {}
    /\ jobs = <<>>
    /\ calls = <<>>
    /\ opened = <<>>
    /\ converted = {}
    /\ trace = <<>>
    /\ returned = {}
    /\ fs0 = fs
    /\ fsRun = fs
    /\ printed = <<>>

\* ----------------------------------------------------------- stage entry

\* iterating a str yields its characters, each a str of length one
Iterate(str) == [k \in 1..Len(str) |-> <<str[k]>>]

Job(file, out, existed, before, called, logged, outcome) ==
    [file |-> file, out |-> out, existed |-> existed, before |-> before,
     called |-> called, logged |-> logged, outcome |-> outcome]

\* batch_compress_and_tile up to its loop: os.chdir(out_dir)
EnterConvert(list, out_dir) ==
    /\ trace' = Append(trace, "CONVERT")
    /\ stage' = "CONVERT"
    /\ flist' = list
    /\ i' = 1
    /\ jobs' = <<>>
    /\ calls' = <<>>
    /\ fs0' = fs
    /\ todo' = {}
    /\ dirs' = dirs
    /\ IF out_dir \in dirs
       THEN cwd' = out_dir /\ status' = "running" /\ exc' = "none"
       ELSE cwd' = cwd /\ status' = "raised" /\ exc' = "FileNotFoundError"

\* batch_create_overviews up to its loop
EnterOverviews(list_of_files) ==
    /\ trace' = Append(trace, "BUILD_OVERVIEWS")
    /\ stage' = "BUILD_OVERVIEWS"
    /\ flist' = Iterate(list_of_files)
    /\ i' = 1
    /\ jobs' = <<>>
    /\ calls' = <<>>
    /\ fs0' = fs
    /\ todo' = {}
    /\ dirs' = dirs
    /\ cwd' = cwd
    /\ status' = "running"
    /\ exc' = "none"

\* batch_create_cog up to its loop: os.mkdir(out), os.chdir(out)
EnterCog(list, out_dir) ==
    LET out == join(out_dir, COG)
    IN  /\ trace' = Append(trace, "ASSEMBLE_COG")
        /\ stage' = "ASSEMBLE_COG"
        /\ flist' = list
        /\ i' = 1
        /\ jobs' = <<>>
        /\ calls' = <<>>
        /\ fs0' = fs
        /\ todo' = {}
        /\ IF out \in dirs \cup DOMAIN fs
           THEN /\ dirs' = dirs /\ cwd' = cwd
                /\ status' = "raised" /\ exc' = "FileExistsError"
           ELSE IF out_dir \notin dirs
           THEN /\ dirs' = dirs /\ cwd' = cwd
                /\ status' = "raised" /\ exc' = "FileNotFoundError"
           ELSE /\ dirs' = dirs \cup {out} /\ cwd' = out
                /\ status' = "running" /\ exc' = "none"

\* remove_intermediate_tif up to its loop: the glob is evaluated once
EnterCleanup(in_dir) ==
    /\ trace' = Append(trace, "CLEANUP")
    /\ stage' = "CLEANUP"
    /\ flist' = <<>>
    /\ i' = 1
    /\ jobs' = <<>>
    /\ calls' = <<>>
    /\ fs0' = fs
    /\ todo' = glob(fs, in_dir, tif)
    /\ dirs' = dirs
    /\ cwd' = cwd
    /\ status' = "running"
    /\ exc' = "none"

\* run_cog_conversion returns
EnterDone ==
    /\ trace' = Append(trace, "DONE")
    /\ stage' = "DONE"
    /\ status' = "returned"
    /\ exc' = "none"
    /\ UNCHANGED <<flist, i, jobs, calls, fs0, todo, dirs, cwd>>

\* mutant of NextStage: the COG call is left out
NextStageSkipsCog(s) ==
    CASE s = "CONVERT" -> "BUILD_OVERVIEWS"
      [] s = "BUILD_OVERVIEWS" -> "CLEANUP"
      [] s = "ASSEMBLE_COG" -> "CLEANUP"
      [] s = "CLEANUP" -> "DONE"

\* the order of the calls in run_cog_conversion
NextStage(s) ==
    CASE s = "CONVERT" -> "BUILD_OVERVIEWS"
      [] s = "BUILD_OVERVIEWS" -> "ASSEMBLE_COG"
      [] s = "ASSEMBLE_COG" -> "CLEANUP"
      [] s = "CLEANUP" -> "DONE"

\* the call run_cog_conversion makes for stage s, with the arguments it passes
Enter(s) ==
    CASE s = "BUILD_OVERVIEWS" -> EnterOverviews(odir)
      [] s = "ASSEMBLE_COG" ->
            \E list \in Orderings(glob(fs, odir, tif)) : EnterCog(list, odir)
      [] s = "CLEANUP" -> EnterCleanup(odir)
      [] s = "DONE" -> EnterDone

\* ------------------------------------------------------------ entry points

\* every entry directly in dir
FilesIn(f, dir) == {p \in DOMAIN f : join(dir, basename(p)) = p}

\* the pipeline's directories hold nothing yet
EmptyTree == DOMAIN fs = {} /\ join(ODir, COG) \notin dirs

\* run_cog_conversion: the two directory dialogs, the three globs, then the
\* call of batch_compress_and_tile
run_cog_conversion ==
    /\ entry = "idle"
    /\ entry' = "driver"
    /\ \E id \in {IDir, ODir}, od \in {ODir, <<>>} :
        /\ idir' = id
        /\ odir' = od
        /\ \E a \in Orderings(glob(fs, id, asc)), d \in Orderings(glob(fs, id, dem)),
              t \in Orderings(glob(fs, id, tif)) :
                EnterConvert(a \o d \o t, od)
    /\ UNCHANGED <<fs, epsg, compress_method, opened, converted, returned, fsRun, printed>>

\* batch_compress_and_tile(list_of_files, out_dir) called on its own
call_batch_compress_and_tile ==
    /\ entry = "idle"
    /\ entry' = "convert"
    /\ idir' = IDir
    /\ odir' = ODir
    /\ \E list \in Orderings(FilesIn(fs, IDir)) : EnterConvert(list, ODir)
    /\ UNCHANGED <<fs, epsg, compress_method, opened, converted, returned, fsRun, printed>>

\* batch_create_cog(list_of_files, out_dir) called on its own
call_batch_create_cog ==
    /\ entry = "idle"
    /\ entry' = "cog"
    /\ idir' = IDir
    /\ odir' = ODir
    /\ \E list \in Orderings(FilesIn(fs, IDir)) : EnterCog(list, ODir)
    /\ UNCHANGED <<fs, epsg, compress_method, opened, converted, returned, fsRun, printed>>

\* remove_intermediate_tif(in_dir) called on its own
call_remove_intermediate_tif ==
    /\ entry = "idle"
    /\ entry' = "cleanup"
    /\ \E in_dir \in {IDir, ODir} :
        /\ idir' = in_dir
        /\ odir' = in_dir
        /\ EnterCleanup(in_dir)
    /\ UNCHANGED <<fs, epsg, compress_method, opened, converted, returned, fsRun, printed>>

\* epsg_from_filename(filename) called on a fresh object
call_epsg_from_filename ==
    /\ entry = "idle"
    /\ EmptyTree
    /\ entry' = "resolve"
    /\ \E toks \in TokenSeqs :
        LET filename == join(IDir, JoinTokens(toks) \o dem)
            r == epsg_from_filename(epsg, filename)
        IN  /\ flist' = <<filename>>
            /\ epsg' = r.epsg
            /\ status' = IF r.raised THEN "raised" ELSE "returned"
            /\ exc' = IF r.raised THEN "KeyError" ELSE "none"
    /\ stage' = "RESOLVE"
    /\ trace' = Append(trace, "RESOLVE")
    /\ UNCHANGED <<fs, dirs, cwd, compress_method, idir, odir, i, todo, jobs, calls,
                   opened, converted, returned, fs0, fsRun, printed>>

\* -------------------------------------------------- batch_compress_and_tile

InLoop(s) == stage = s /\ status = "running" /\ i <= Len(flist)

\* mutant of OutName: the extension is kept and .tif added after it
OutNameKeepsExt(file) == basename(file) \o tif

\* the output name both translate loops derive from the input path
OutName(file) == splitext(basename(file)) \o tif

\* mutant of OutputExists: the test never holds
OutputExistsNever(out_name) == FALSE

\* the loops' test 'if os.path.exists(out_name): continue'
OutputExists(out_name) == exists(out_name)

\* create_translate_options: what it leaves in self.compress_method
jpeg_quality(method) ==
    IF method = "JPEG" THEN "JPEG -co JPEG_QUALITY=75" ELSE method

\* create_translate_options: the options the command string carries
translate_options(srs, method) ==
    [of |-> "GTiff", a_srs |-> srs, PREDICTOR |-> 3, TILED |-> "YES",
     NUM_THREADS |-> "ALL_CPUS", COMPRESS |-> jpeg_quality(method), ZLEVEL |-> 6]

\* batch_create_cog's options
trans_opt(method) ==
    [TILED |-> "YES", COPY_SRC_OVERVIEWS |-> "YES", COMPRESS |-> method,
     NUM_THREADS |-> "ALL_CPUS", BLOCKXSIZE |-> 512, BLOCKYSIZE |-> 512]

\* mutant of LogLine: the basename is written instead of the path
LogLineBasename(file, e) == basename(file) \o <<"\t">> \o e \o <<"\n">>

\* the line err_file.write(f'{file}\t{e}\n') writes
LogLine(file, e) == file \o <<"\t">> \o e \o <<"\n">>

\* open(path, 'a+') followed by one write
AppendLog(f, path, line) ==
    Put(f, path, File("log", <<>>, None, FALSE, Append(LinesAt(f, path), line)))

\* the output exists: continue
convert_skip ==
    /\ InLoop("CONVERT")
    /\ OutputExists(OutName(flist[i]))
    /\ i' = i + 1
    /\ jobs' = Append(jobs, Job(flist[i], join(cwd, OutName(flist[i])),
                                join(cwd, OutName(flist[i])) \in DOMAIN fs \cup dirs,
                                ContentAt(fs, join(cwd, OutName(flist[i]))),
                                FALSE, FALSE, "skip"))
    /\ UNCHANGED <<entry, stage, status, exc, fs, dirs, cwd, epsg, compress_method, idir,
                   odir, flist, todo, calls, opened, converted, trace, returned, fs0,
                   fsRun, printed>>

\* epsg_from_filename raises KeyError, outside the try
convert_key_error ==
    /\ InLoop("CONVERT")
    /\ ~OutputExists(OutName(flist[i]))
    /\ epsg_from_filename(epsg, flist[i]).raised
    /\ status' = "raised"
    /\ exc' = "KeyError"
    /\ jobs' = Append(jobs, Job(flist[i], join(cwd, OutName(flist[i])),
                                join(cwd, OutName(flist[i])) \in DOMAIN fs \cup dirs,
                                ContentAt(fs, join(cwd, OutName(flist[i]))),
                                FALSE, FALSE, "KeyError"))
    /\ UNCHANGED <<entry, stage, fs, dirs, cwd, epsg, compress_method, idir, odir, flist,
                   i, todo, calls, opened, converted, trace, returned, fs0, fsRun, printed>>

\* gdal.Translate(out_name, file, options=translate_options) succeeds
convert_translate_ok ==
    /\ InLoop("CONVERT")
    /\ ~OutputExists(OutName(flist[i]))
    /\ ~epsg_from_filename(epsg, flist[i]).raised
    /\ LET file == flist[i]
           out == join(cwd, OutName(file))
           srs == epsg_from_filename(epsg, file).epsg
           opts == translate_options(srs, compress_method)
           newfs == Put(fs, out, File("raster", file, opts.a_srs, FALSE, <<>>))
           log == join(odir, ConvLog)
       IN  /\ epsg' = srs
           /\ compress_method' = jpeg_quality(compress_method)
           /\ calls' = Append(calls, [out |-> OutName(file), src |-> file, options |-> opts])
           /\ fs' = newfs
           /\ converted' = converted \cup {out}
           /\ jobs' = Append(jobs, Job(file, out, out \in DOMAIN fs \cup dirs,
                                       ContentAt(fs, out), TRUE,
                                       LinesAt(newfs, log) # LinesAt(fs, log), "ok"))
    /\ i' = i + 1
    /\ UNCHANGED <<entry, stage, status, exc, dirs, cwd, idir, odir, flist, todo, opened,
                   trace, returned, fs0, fsRun, printed>>

\* gdal.Translate raises (it may leave a partial output): the except clause
\* appends one line to compression_and_tiling_errors.txt
convert_translate_raise ==
    /\ InLoop("CONVERT")
    /\ ~OutputExists(OutName(flist[i]))
    /\ ~epsg_from_filename(epsg, flist[i]).raised
    /\ \E partial \in BOOLEAN :
        LET file == flist[i]
            out == join(cwd, OutName(file))
            srs == epsg_from_filename(epsg, file).epsg
            opts == translate_options(srs, compress_method)
            left == IF partial THEN Put(fs, out, File("partial", file, opts.a_srs, FALSE, <<>>))
                    ELSE fs
            log == join(odir, ConvLog)
            newfs == AppendLog(left, log, LogLine(file, ErrText))
        IN  /\ epsg' = srs
            /\ compress_method' = jpeg_quality(compress_method)
            /\ calls' = Append(calls, [out |-> OutName(file), src |-> file, options |-> opts])
            /\ fs' = newfs
            /\ jobs' = Append(jobs, Job(file, out, out \in DOMAIN fs \cup dirs,
                                        ContentAt(fs, out), TRUE,
                                        LinesAt(newfs, log) # LinesAt(fs, log), "fail"))
    /\ i' = i + 1
    /\ UNCHANGED <<entry, stage, status, exc, dirs, cwd, idir, odir, flist, todo, opened,
                   converted, trace, returned, fs0, fsRun, printed>>

\* ---------------------------------------------------- batch_create_overviews

\* gdal.Open can succeed only on a path that exists
Openable(f) == join(cwd, f) \in DOMAIN fs \cup dirs

\* gdal.Open(f) and im.BuildOverviews succeed
overview_build ==
    /\ InLoop("BUILD_OVERVIEWS")
    /\ Openable(flist[i])
    /\ opened' = Append(opened, join(cwd, flist[i]))
    /\ fs' = IF join(cwd, flist[i]) \in DOMAIN fs
             THEN [fs EXCEPT ![join(cwd, flist[i])].ovr = TRUE]
             ELSE fs
    /\ i' = i + 1
    /\ UNCHANGED <<entry, stage, status, exc, dirs, cwd, epsg, compress_method, idir, odir,
                   flist, todo, jobs, calls, converted, trace, returned, fs0, fsRun,
                   printed>>

\* gdal.Open(f) or im.BuildOverviews raises: nothing catches it
overview_raise ==
    /\ InLoop("BUILD_OVERVIEWS")
    /\ opened' = Append(opened, join(cwd, flist[i]))
    /\ status' = "raised"
    /\ exc' = "RuntimeError"
    /\ UNCHANGED <<entry, stage, fs, dirs, cwd, epsg, compress_method, idir, odir, flist,
                   i, todo, jobs, calls, converted, trace, returned, fs0, fsRun, printed>>

\* ----------------------------------------------------------- batch_create_cog

\* the output exists: continue
cog_skip ==
    /\ InLoop("ASSEMBLE_COG")
    /\ OutputExists(OutName(flist[i]))
    /\ i' = i + 1
    /\ jobs' = Append(jobs, Job(flist[i], join(cwd, OutName(flist[i])),
                                join(cwd, OutName(flist[i])) \in DOMAIN fs \cup dirs,
                                ContentAt(fs, join(cwd, OutName(flist[i]))),
                                FALSE, FALSE, "skip"))
    /\ UNCHANGED <<entry, stage, status, exc, fs, dirs, cwd, epsg, compress_method, idir,
                   odir, flist, todo, calls, opened, converted, trace, returned, fs0,
                   fsRun, printed>>

\* gdal.Translate(out_name, file, options=trans_opt) succeeds
cog_translate_ok ==
    /\ InLoop("ASSEMBLE_COG")
    /\ ~OutputExists(OutName(flist[i]))
    /\ LET file == flist[i]
           out == join(cwd, OutName(file))
           newfs == Put(fs, out, File("cog", file, ContentAt(fs, file).srs,
                                      ContentAt(fs, file).ovr, <<>>))
           log == join(join(odir, COG), CogLog)
       IN  /\ calls' = Append(calls, [out |-> OutName(file), src |-> file,
                                      options |-> trans_opt(compress_method)])
           /\ fs' = newfs
           /\ jobs' = Append(jobs, Job(file, out, out \in DOMAIN fs \cup dirs,
                                       ContentAt(fs, out), TRUE,
                                       LinesAt(newfs, log) # LinesAt(fs, log), "ok"))
    /\ i' = i + 1
    /\ UNCHANGED <<entry, stage, status, exc, dirs, cwd, epsg, compress_method, idir, odir,
                   flist, todo, opened, converted, trace, returned, fs0, fsRun, printed>>

\* gdal.Translate raises (it may leave a partial output): the except clause
\* appends one line to COG_creation_errors.txt
cog_translate_raise ==
    /\ InLoop("ASSEMBLE_COG")
    /\ ~OutputExists(OutName(flist[i]))
    /\ \E partial \in BOOLEAN :
        LET file == flist[i]
            out == join(cwd, OutName(file))
            left == IF partial THEN Put(fs, out, File("partial", file, None, FALSE, <<>>))
                    ELSE fs
            log == join(join(odir, COG), CogLog)
            newfs == AppendLog(left, log, LogLine(file, ErrText))
        IN  /\ calls' = Append(calls, [out |-> OutName(file), src |-> file,
                                       options |-> trans_opt(compress_method)])
            /\ fs' = newfs
            /\ jobs' = Append(jobs, Job(file, out, out \in DOMAIN fs \cup dirs,
                                        ContentAt(fs, out), TRUE,
                                        LinesAt(newfs, log) # LinesAt(fs, log), "fail"))
    /\ i' = i + 1
    /\ UNCHANGED <<entry, stage, status, exc, dirs, cwd, epsg, compress_method, idir, odir,
                   flist, todo, opened, converted, trace, returned, fs0, fsRun, printed>>

\* ----------------------------------------------------- remove_intermediate_tif

\* os.remove(f) succeeds
cleanup_remove ==
    /\ stage = "CLEANUP"
    /\ status = "running"
    /\ \E f \in todo :
        /\ todo' = todo \ {f}
        /\ fs' = Del(fs, f)
    /\ UNCHANGED <<entry, stage, status, exc, dirs, cwd, epsg, compress_method, idir, odir,
                   flist, i, jobs, calls, opened, converted, trace, returned, fs0, fsRun,
                   printed>>

\* os.remove(f) raises (permissions, a lock): nothing catches it
cleanup_raise ==
    /\ stage = "CLEANUP"
    /\ status = "running"
    /\ todo # {}
    /\ status' = "raised"
    /\ exc' = "OSError"
    /\ UNCHANGED <<entry, stage, fs, dirs, cwd, epsg, compress_method, idir, odir, flist,
                   i, todo, jobs, calls, opened, converted, trace, returned, fs0, fsRun,
                   printed>>

\* ------------------------------------------------------------ stage return

LoopDone ==
    IF stage = "CLEANUP" THEN todo = {}
    ELSE stage \in {"CONVERT", "BUILD_OVERVIEWS", "ASSEMBLE_COG"} /\ i > Len(flist)

\* the stage's loop is over and the function returns; in run_cog_conversion
\* the next call follows
stage_return ==
    /\ status = "running"
    /\ LoopDone
    /\ returned' = returned \cup {stage}
    /\ IF entry = "driver"
       THEN Enter(NextStage(stage))
       ELSE /\ status' = "returned"
            /\ UNCHANGED <<stage, exc, dirs, cwd, flist, i, todo, jobs, calls, trace, fs0>>
    /\ UNCHANGED <<entry, fs, epsg, compress_method, idir, odir, opened, converted, fsRun,
                   printed>>

\* ------------------------------------------------------ Check_Corrupt_Jpg.py

\* lst = glob2.glob('**\*.jpg')
scan_start ==
    /\ entry = "idle"
    /\ EmptyTree
    /\ entry' = "scan"
    /\ stage' = "SCAN"
    /\ status' = "running"
    /\ trace' = Append(trace, "SCAN")
    /\ \E S \in Small(JpgNames, MaxFiles) : \E lst \in Orderings(S) : flist' = lst
    /\ UNCHANGED <<exc, fs, dirs, cwd, epsg, compress_method, idir, odir, i, todo, jobs,
                   calls, opened, converted, returned, fs0, fsRun, printed>>

\* the try body runs through: gdal.Open, os.stat, the two prints
scan_open_ok ==
    /\ InLoop("SCAN")
    /\ opened' = Append(opened, flist[i])
    /\ printed' = Append(printed, flist[i])
    /\ jobs' = Append(jobs, Job(flist[i], <<>>, FALSE, Absent, FALSE, FALSE, "ok"))
    /\ i' = i + 1
    /\ UNCHANGED <<entry, stage, status, exc, fs, dirs, cwd, epsg, compress_method, idir,
                   odir, flist, todo, calls, converted, trace, returned, fs0, fsRun>>

\* gdal.Open raises RuntimeError: 'except (RuntimeError, e):' evaluates the
\* tuple (RuntimeError, e), e is unbound, and NameError leaves the script
scan_open_raise ==
    /\ InLoop("SCAN")
    /\ opened' = Append(opened, flist[i])
    /\ jobs' = Append(jobs, Job(flist[i], <<>>, FALSE, Absent, FALSE, FALSE, "fail"))
    /\ status' = "raised"
    /\ exc' = "NameError"
    /\ UNCHANGED <<entry, stage, fs, dirs, cwd, epsg, compress_method, idir, odir, flist,
                   i, todo, calls, converted, trace, returned, fs0, fsRun, printed>>

\* the loop is over: the elapsed time and the file count are printed
scan_finish ==
    /\ stage = "SCAN"
    /\ status = "running"
    /\ i > Len(flist)
    /\ printed' = Append(printed, <<"files">>)
    /\ status' = "returned"
    /\ returned' = returned \cup {"SCAN"}
    /\ UNCHANGED <<entry, stage, exc, fs, dirs, cwd, epsg, compress_method, idir, odir,
                   flist, i, todo, jobs, calls, opened, converted, trace, fs0, fsRun>>

\* ------------------------------------------------------------ specification

Next ==
    \/ run_cog_conversion
    \/ call_batch_compress_and_tile
    \/ call_batch_create_cog
    \/ call_remove_intermediate_tif
    \/ call_epsg_from_filename
    \/ convert_skip
    \/ convert_key_error
    \/ convert_translate_ok
    \/ convert_translate_raise
    \/ overview_build
    \/ overview_raise
    \/ cog_skip
    \/ cog_translate_ok
    \/ cog_translate_raise
    \/ cleanup_remove
    \/ cleanup_raise
    \/ stage_return
    \/ scan_start
    \/ scan_open_ok
    \/ scan_open_raise
    \/ scan_finish

Spec == Init /\ [][Next]_vars

\* ------------------------------------------------------------------ claims

Range(s) == {s[k] : k \in 1..Len(s)}

StartsWith(p, pre) == Len(p) >= Len(pre) /\ SubSeq(p, 1, Len(pre)) = pre

\* the derived output name as the specification words it: the input's
\* basename with its extension replaced by .tif
Derived(file) ==
    LET b == SubSeq(file, rfind(file, "/") + 1, Len(file))
    IN  SubSeq(b, 1, rfind(b, ".") - 1) \o tif

InTranslateStage == stage \in {"CONVERT", "ASSEMBLE_COG"}

\* the error log of the stage the run is in
StageLog ==
    IF stage = "CONVERT" THEN ODir \o <<"/">> \o ConvLog
    ELSE ODir \o <<"/">> \o COG \o <<"/">> \o CogLog

\* C1: a job whose derived output exists when the loop reaches it gets no
\* translate call, its output file keeps its content, and no line is logged
C1_SkipIfExists ==
    InTranslateStage =>
        \A k \in 1..Len(jobs) :
            jobs[k].existed =>
                /\ ~jobs[k].called
                /\ ~jobs[k].logged
                /\ \A c \in Range(calls) : c.src # jobs[k].file
                /\ ContentAt(fs, jobs[k].out) = jobs[k].before

C1_Witness ==
    /\ stage = "ASSEMBLE_COG"
    /\ status = "returned"
    /\ \E k \in 1..Len(jobs) : jobs[k].existed /\ jobs[k].outcome = "skip"

\* C2: the stage's error log gains exactly one line per rejected translate, in
\* order, each holding the input path; a successful translate logs nothing;
\* the loop goes on after a rejection and a run that returns handled every file
C2_OneLinePerRejected ==
    InTranslateStage =>
        LET old == LinesAt(fs0, StageLog)
            now == LinesAt(fs, StageLog)
            failed == {k \in 1..Len(jobs) : jobs[k].outcome = "fail"}
            rank(k) == Cardinality({j \in failed : j <= k})
        IN  /\ Len(now) = Len(old) + Cardinality(failed)
            /\ SubSeq(now, 1, Len(old)) = old
            /\ \A k \in failed :
                /\ Contains(now[Len(old) + rank(k)], jobs[k].file)
                /\ jobs[k].logged
                /\ i > k
            /\ \A k \in 1..Len(jobs) : jobs[k].outcome = "ok" => ~jobs[k].logged
            /\ status = "returned" => Len(jobs) = Len(flist)

C2_Witness ==
    /\ InTranslateStage
    /\ status = "returned"
    /\ \E k, m \in 1..Len(jobs) :
        k < m /\ jobs[k].outcome = "fail" /\ jobs[m].outcome = "ok"

\* C3 (as claimed): once the output directory is entered, whatever fails for
\* one job, the converter reaches every job of the list
C3_BatchNeverAborts ==
    (stage = "CONVERT" /\ status \in {"returned", "raised"} /\ cwd = odir)
        => Len(jobs) = Len(flist)

\* the file name holds none of the seven recognized tokens
NoRecognizedToken(file) ==
    \A t \in Range(FilenameTokens(file)) : t \notin DOMAIN PROJECTIONS

\* C4 (as claimed): a file without a recognized token is translated with an
\* undefined spatial reference, whatever was processed before it
C4_UndefinedReference ==
    stage = "CONVERT" =>
        \A c \in Range(calls) : NoRecognizedToken(c.src) => c.options.a_srs = None

\* the inputs of the converter whose derived output was present at its start
AlreadyConverted ==
    {k \in 1..Len(flist) : (ODir \o <<"/">> \o Derived(flist[k])) \in DOMAIN fs0}

DistinctDerived ==
    \A a, b \in 1..Len(flist) : Derived(flist[a]) = Derived(flist[b]) => a = b

\* C5 (as claimed): a converter run over N files, M of them already
\* converted, makes exactly N - M translate calls
C5_ExactlyNMinusM ==
    (entry = "convert" /\ stage = "CONVERT" /\ status = "returned")
        => Len(calls) = Len(flist) - Cardinality(AlreadyConverted)

\* C5 (amended): the converter never makes more than N - M translate calls; a
\* run that returns made one call per job whose derived output was absent
\* when the loop reached it, which is N - M when the derived names differ
C5_OnePerAbsentOutput ==
    stage = "CONVERT" =>
        /\ Len(calls) <= Len(flist) - Cardinality(AlreadyConverted)
        /\ \A k \in AlreadyConverted : k <= Len(jobs) => ~jobs[k].called
        /\ status = "returned" =>
            /\ Len(calls) = Cardinality({k \in 1..Len(jobs) : ~jobs[k].existed})
            /\ DistinctDerived =>
                  Len(calls) = Len(flist) - Cardinality(AlreadyConverted)

C5_Witness ==
    /\ entry = "convert"
    /\ stage = "CONVERT"
    /\ status = "returned"
    /\ DistinctDerived
    /\ Cardinality(AlreadyConverted) = 1
    /\ Len(calls) = 1
    /\ \E k \in 1..Len(jobs) : jobs[k].outcome = "fail"

\* C6 (as claimed): on a fresh object the first recognized token decides the
\* code, and a name without any returns normally with the reference undefined
C6_ResolverTable ==
    entry = "resolve" =>
        LET toks == FilenameTokens(flist[1])
            rec == {k \in 1..Len(toks) : toks[k] \in DOMAIN PROJECTIONS}
        IN  /\ status = "returned"
            /\ epsg = IF rec = {} THEN None ELSE PROJECTIONS[toks[Min(rec)]]

\* the entries of f directly in dir whose name ends in .tif
TifIn(f, dir) ==
    {p \in DOMAIN f :
        /\ StartsWith(p, dir \o <<"/">>)
        /\ rfind(p, "/") = Len(dir) + 1
        /\ Len(p) > Len(dir) + 1 + Len(tif)
        /\ SubSeq(p, Len(p) - Len(tif) + 1, Len(p)) = tif}

C8_ScannerContinues ==
    (entry = "scan" /\ status \in {"returned", "raised"}) =>
        /\ Len(opened) = Len(flist)
        /\ Len(LinesAt(fs, join(cwd, CsvName)))
              = Cardinality({k \in 1..Len(jobs) : jobs[k].outcome = "fail"})
        /\ Len(printed) > 0 /\ printed[Len(printed)] = <<"files">>

StageOrder == <<"CONVERT", "BUILD_OVERVIEWS", "ASSEMBLE_COG", "CLEANUP", "DONE">>

\* the stages of a driver run come in order, each once, each after the one
\* before it returned; a raised stage has not returned
C9_Order ==
    entry = "driver" =>
        /\ Len(trace) \in 1..Len(StageOrder)
        /\ trace = SubSeq(StageOrder, 1, Len(trace))
        /\ stage = trace[Len(trace)]
        /\ \A k \in 1..(Len(trace) - 1) : trace[k] \in returned
        /\ returned \subseteq Range(trace)
        /\ status = "raised" => stage \notin returned /\ stage # "DONE"
        /\ status = "returned" <=> stage = "DONE"
        /\ "CLEANUP" \in Range(trace) => "ASSEMBLE_COG" \in returned

\* a step of a driver run that does not raise moves the run forward: to the
\* next stage, to the next item of the loop, or to one file fewer to remove
C9_Progress ==
    (entry = "driver" /\ status' # "raised") =>
        \/ Len(trace') > Len(trace)
        \/ i' > i
        \/ Cardinality(todo') < Cardinality(todo)

\* C9: the driver's stages run strictly in order, each once, each after the
\* one before it returned; nothing follows a stage that raised; every step
\* that does not raise moves the run forward, and a run that ended without
\* raising ended at DONE
C9_LinearRun ==
    /\ []C9_Order
    /\ [][status # "raised"]_vars
    /\ [][C9_Progress]_vars

C9_Witness == entry = "driver" /\ stage = "DONE" /\ status = "returned"

\* C10 (as claimed): the overview stage opens exactly the rasters the convert
\* stage wrote, and the COG stage is given exactly those rasters
C10_StageInputs ==
    entry = "driver" =>
        /\ Range(opened) \subseteq converted
        /\ "BUILD_OVERVIEWS" \in returned => Range(opened) = converted
        /\ stage = "ASSEMBLE_COG" => Range(flist) = converted

====
